---- MODULE Spec2Model ----
(***************************************************************************)
(* Two Sudoku engines of the repository:                                   *)
(*   src/sudoku.py          depth-first search over a ChainMap of          *)
(*                          candidate sets (cells 0..8 x 0..8);            *)
(*   src/smarter_sudoku.py  deductive engine, nine strategies and the      *)
(*                          driver find (cells 1..9 x 1..9).               *)
(* A puzzle is a list of nine lines of nine characters; a line is modelled *)
(* as a tuple of nine numbers, 0 standing for the character ' ' and d for  *)
(* the character 'd'.                                                      *)
(*                                                                         *)
(* Iteration order of a Python set is not fixed by the language.  Where    *)
(* the code iterates over a set and the order decides what happens next    *)
(* (the candidate loop of solutions, the first action a strategy yields),  *)
(* the model lets any order happen.                                        *)
(***************************************************************************)
EXTENDS Integers, Sequences, FiniteSets, Bags, TLC

VARIABLES
    \* ---- src/sudoku.py
    puzzle,       \* the argument of solve / read_grid: nine lines
    spc,          \* "new" | "run" | "yield" | "done"
    rpos,         \* number of characters read_grid has consumed
    maps,         \* self.grid.maps: the ChainMap's layers, newest first
    frames,       \* the active solutions() generator frames: per frame the
                  \* candidate values its for loop has not tried yet
    yielded,      \* bag of the grid views seen by the consumer at each yield
    result,       \* what solve returns: "pending" | "None" | display lines
    \* ---- src/smarter_sudoku.py
    lines,        \* the argument of load: nine lines
    pc,           \* "load" | "find" | "stuck" | "error" | "keyerror"
    loadPos,      \* number of characters load has consumed (row-major)
    placed_grid,  \* self.placed_grid: cell -> placed value, 0 when absent
    grid,         \* self.grid: cell -> candidate set
    last,         \* the action performed by the last step
    \* ---- a call of one of the module-level functions
    call,         \* the function called and its argument
    ret           \* << >> before the call returns, <<value>> after

svars == <<puzzle, spc, rpos, maps, frames, yielded, result>>
dvars == <<lines, pc, loadPos, placed_grid, grid, last>>
pvars == <<call, ret>>
vars == <<puzzle, spc, rpos, maps, frames, yielded, result,
          lines, pc, loadPos, placed_grid, grid, last, call, ret>>

(***************************************************************************)
(* Inputs.                                                                 *)
(***************************************************************************)
\* SudokuTests.SOLVED_TEST_GRID
SOLVED_TEST_GRID ==
    << <<5,3,4,1,7,8,9,2,6>>,
       <<6,7,2,9,4,3,8,5,1>>,
       <<1,8,9,6,5,2,4,7,3>>,
       <<3,9,1,7,2,4,5,6,8>>,
       <<7,6,8,5,1,9,3,4,2>>,
       <<4,2,5,3,8,6,1,9,7>>,
       <<9,4,7,2,3,1,6,8,5>>,
       <<2,1,6,8,9,5,7,3,4>>,
       <<8,5,3,4,6,7,2,1,9>> >>

\* SudokuTests.IMPOSSIBLE_GRID
IMPOSSIBLE_GRID ==
    << <<1,1,1,1,1,1,1,1,1>>,
       <<0,0,0,0,0,0,0,0,0>>,
       <<0,0,0,0,0,0,0,0,0>>,
       <<0,0,0,0,0,0,0,0,0>>,
       <<0,0,0,0,0,0,0,0,0>>,
       <<0,0,0,0,0,0,0,0,0>>,
       <<0,0,0,0,0,0,0,0,0>>,
       <<0,0,0,0,0,0,0,0,0>>,
       <<0,0,0,0,0,0,0,0,0>> >>


(***************************************************************************)
(* src/sudoku.py: topology and grid.                                       *)
(***************************************************************************)
SQS == 3
GRID_SIZE == SQS * SQS

Idx == 0..(GRID_SIZE - 1)
Cells == Idx \X Idx

\* range(1, 10), the values of blank_grid's default
Values == 1..9

\* grid_indexes = [(i, j) for j in range(GRID_SIZE) for i in range(GRID_SIZE)]
grid_indexes ==
    [k \in 1..(GRID_SIZE * GRID_SIZE) |->
        <<(k - 1) % GRID_SIZE, (k - 1) \div GRID_SIZE>>]

\* blank_grid = defaultdict(lambda: set(range(1, 10)))
blank_grid == [c \in Cells |-> Values]

\* floor(idx/SQS) and ceil(idx/SQS) for idx >= 0
floor_div(idx) == idx \div SQS
ceil_div(idx) == (idx + SQS - 1) \div SQS

\* range(floor(idx/SQS)*SQS, ceil(idx/SQS)*SQS)
subsq_range(idx) == (floor_div(idx) * SQS)..(ceil_div(idx) * SQS - 1)

other_cells_affected(cell) ==
    LET row == cell[1]
        col == cell[2]
    IN  {<<i, col>> : i \in Idx} \cup {<<row, i>> : i \in Idx}
        \cup (subsq_range(row) \X subsq_range(col))

\* read_grid is a generator over the characters of the lines, line by line:
\* the character at position k (0-based, row-major), its cell, and the
\* positions at or after k that hold a non-blank character
char_at(g, k) == g[(k \div GRID_SIZE) + 1][(k % GRID_SIZE) + 1]

cell_at(k) == <<k \div GRID_SIZE, k % GRID_SIZE>>

non_blank_from(g, k) ==
    {j \in k..(GRID_SIZE * GRID_SIZE - 1) : char_at(g, j) # 0}

\* ChainMap.__getitem__: the first layer that has the key
Lookup(m, c) ==
    LET i == CHOOSE i \in 1..Len(m) :
                 /\ c \in DOMAIN m[i]
                 /\ \A j \in 1..(i - 1) : c \notin DOMAIN m[j]
    IN  m[i][c]

\* the candidate set of every cell as the ChainMap shows it
View(m) == [c \in Cells |-> Lookup(m, c)]

EmptyLayer == [c \in {} |-> {}]

\* a faulty set_cell that writes {value} before the loop over the affected
\* cells, which then takes value away from the cell itself (used to test C13)
set_cell_first(m, cell, value) ==
    LET aff == other_cells_affected(cell)
        top == m[1]
        new == [c \in (DOMAIN top) \cup aff \cup {cell} |->
                   IF c = cell THEN {}
                   ELSE IF c \in aff THEN Lookup(m, c) \ {value}
                   ELSE top[c]]
    IN  [m EXCEPT ![1] = new]

\* SudokuGrid.set_cell: every write goes to the newest layer
set_cell(m, cell, value) ==
    LET aff == other_cells_affected(cell)
        top == m[1]
        new == [c \in (DOMAIN top) \cup aff \cup {cell} |->
                   IF c = cell THEN {value}
                   ELSE IF c \in aff THEN Lookup(m, c) \ {value}
                   ELSE top[c]]
    IN  [m EXCEPT ![1] = new]

\* a faulty __enter__ without new_child (used to test C14)
enter_subgrid_inplace(m, cell, value) == set_cell(m, cell, value)

\* search_subgrid.__enter__: new_child, then set_cell
enter_subgrid(m, cell, value) == set_cell(<<EmptyLayer>> \o m, cell, value)

\* a faulty __exit__ that keeps the overlay (used to test C2)
exit_subgrid_keep(m) == m

\* search_subgrid.__exit__: self.grid = self.grid.parents
exit_subgrid(m) == Tail(m)

\* the character '.' of display (characters are numbers: 0 is ' ', d is 'd')
DOT == 10

\* SudokuGrid.display: the digit of a one-candidate cell, '.' otherwise
display(m) ==
    [r \in 1..GRID_SIZE |-> [c \in 1..GRID_SIZE |->
        LET value == Lookup(m, <<r - 1, c - 1>>)
        IN  IF Cardinality(value) = 1
            THEN CHOOSE v \in value : TRUE
            ELSE DOT]]


(***************************************************************************)
(* src/sudoku.py: the inputs explored.  A puzzle is SOLVED_TEST_GRID with  *)
(* a run of at most MaxBlank consecutive cells of BlankPool blanked and at *)
(* most MaxExtra characters of ExtraPool written over it, or the test's    *)
(* IMPOSSIBLE_GRID.                                                        *)
(***************************************************************************)
MaxBlank == 4
MaxExtra == 1

BlankPool ==
    << <<0,6>>, <<2,6>>, <<2,2>>, <<0,2>>, <<0,8>>, <<7,8>>, <<7,2>>, <<6,2>> >>

ExtraPool ==
    << << <<0,2>>, 6 >>, << <<0,0>>, 3 >>, << <<8,8>>, 6 >>, << <<1,1>>, 9 >> >>

Min(a, b) == IF a <= b THEN a ELSE b

BlankSets ==
    {{BlankPool[i] : i \in a..Min(a + n - 1, Len(BlankPool))} :
        a \in 1..Len(BlankPool), n \in 0..MaxBlank}

ExtraSets ==
    {e \in SUBSET {ExtraPool[i] : i \in 1..Len(ExtraPool)} :
        /\ Cardinality(e) <= MaxExtra
        /\ \A x, y \in e : x[1] = y[1] => x = y}

MakePuzzle(solved, blanks, extras) ==
    [r \in 1..GRID_SIZE |-> [c \in 1..GRID_SIZE |->
        LET cell == <<r - 1, c - 1>>
        IN  IF \E x \in extras : x[1] = cell
            THEN (CHOOSE x \in extras : x[1] = cell)[2]
            ELSE IF cell \in blanks THEN 0
            ELSE solved[r][c]]]

SearchInputs ==
    {MakePuzzle(SOLVED_TEST_GRID, b, e) : b \in BlankSets, e \in ExtraSets}
    \cup {IMPOSSIBLE_GRID}

(***************************************************************************)
(* src/sudoku.py: solve and the generator solutions().                     *)
(***************************************************************************)
Pending == [kind |-> "pending", rows |-> << >>]
None == [kind |-> "None", rows |-> << >>]
Grid(rows) == [kind |-> "grid", rows |-> rows]

\* the call solutions(remaining_cells) made with Len(fr) cells already set:
\* with no cell left it yields self, otherwise its for loop starts over the
\* candidate set of remaining_cells[0]
Call(m, fr) ==
    IF Len(fr) = Len(grid_indexes)
    THEN /\ spc' = "yield"
         /\ frames' = fr
         /\ yielded' = yielded (+) SetToBag({View(m)})
         /\ result' = IF result = Pending THEN Grid(display(m)) ELSE result
    ELSE /\ spc' = "run"
         /\ frames' = Append(fr, Lookup(m, grid_indexes[Len(fr) + 1]))
         /\ UNCHANGED <<yielded, result>>

\* SudokuGrid.__init__, one iteration of its loop over read_grid(grid):
\* the next non-blank character is placed by set_cell
SetGiven ==
    /\ spc = "new"
    /\ non_blank_from(puzzle, rpos) # {}
    /\ LET k == CHOOSE j \in non_blank_from(puzzle, rpos) :
                    \A i \in non_blank_from(puzzle, rpos) : j <= i
       IN  /\ maps' = set_cell(maps, cell_at(k), char_at(puzzle, k))
           /\ rpos' = k + 1
    /\ UNCHANGED <<puzzle, spc, frames, yielded, result, dvars, pvars>>

\* solve: read_grid is exhausted, the constructor returns, and
\* next(....solutions(), None) starts the outermost call
Start ==
    /\ spc = "new"
    /\ non_blank_from(puzzle, rpos) = {}
    /\ rpos' = GRID_SIZE * GRID_SIZE
    /\ maps' = maps
    /\ Call(maps, << >>)
    /\ UNCHANGED <<puzzle, dvars, pvars>>

\* one iteration of the for loop of the innermost frame: enter
\* search_subgrid(cell_to_set, candidate_value) and call solutions on the rest
Try ==
    /\ spc = "run"
    /\ frames # << >>
    /\ LET n == Len(frames)
           cell_to_set == grid_indexes[n]
       IN  \E candidate_value \in frames[n] :
              /\ maps' = enter_subgrid(maps, cell_to_set, candidate_value)
              /\ Call(maps', [frames EXCEPT ![n] = @ \ {candidate_value}])
    /\ UNCHANGED <<puzzle, rpos, dvars, pvars>>

\* the for loop of the innermost frame is exhausted: the call returns; the
\* caller leaves its with block, or, for the outermost call, the generator
\* is exhausted (next(..., None) gives None when nothing was yielded)
Return ==
    /\ spc = "run"
    /\ frames # << >>
    /\ frames[Len(frames)] = {}
    /\ frames' = SubSeq(frames, 1, Len(frames) - 1)
    /\ IF Len(frames) = 1
       THEN /\ spc' = "done"
            /\ maps' = maps
            /\ result' = IF result = Pending THEN None ELSE result
       ELSE /\ spc' = "run"
            /\ maps' = exit_subgrid(maps)
            /\ result' = result
    /\ UNCHANGED <<puzzle, rpos, yielded, dvars, pvars>>

\* the consumer asks for the next solution: the call that yielded returns
\* and its caller leaves its with block
Resume ==
    /\ spc = "yield"
    /\ spc' = "run"
    /\ maps' = exit_subgrid(maps)
    /\ UNCHANGED <<puzzle, rpos, frames, yielded, result, dvars, pvars>>

DIdle ==
    /\ lines = << >>
    /\ pc = "idle"
    /\ loadPos = 0
    /\ placed_grid = << >>
    /\ grid = << >>
    /\ last = [op |-> "none", row |-> 0, col |-> 0, value |-> 0, strategy |-> 0]

\* no module-level function is being called
PIdle ==
    /\ call = [fn |-> "none", arg |-> 0]
    /\ ret = << >>

Init ==
    /\ puzzle \in SearchInputs
    /\ spc = "new"
    /\ rpos = 0
    /\ maps = <<EmptyLayer, blank_grid>>
    /\ frames = << >>
    /\ yielded = EmptyBag
    /\ result = Pending
    /\ DIdle
    /\ PIdle

Next == SetGiven \/ Start \/ Try \/ Return \/ Resume

Spec == Init /\ [][Next]_vars


(***************************************************************************)
(* src/smarter_sudoku.py: topology.                                        *)
(***************************************************************************)
\* rows = range(1, 10); cols = range(1, 10)
rows == 1..9
cols == 1..9
DCells == rows \X cols

\* boxes = [(br, bc) for bc in range(1, 4) for br in range(1, 4)]
boxes == [k \in 1..9 |-> <<((k - 1) % 3) + 1, ((k - 1) \div 3) + 1>>]

\* a faulty box_position that rounds down (used to test C12)
box_position_floor(row, col) == <<(row \div 3) + 1, (col \div 3) + 1>>

\* ceil(row/3), ceil(col/3) for row, col >= 1
box_position(row, col) == <<(row + 2) \div 3, (col + 2) \div 3>>

\* range((box_idx-1)*3+1, box_idx*3+1)
box_cell_axes(box_idx) == ((box_idx - 1) * 3 + 1)..(box_idx * 3)

\* [(row, col) for row in box_cell_axes(box_row) for col in box_cell_axes(box_col)]
box_cells(box) ==
    [k \in 1..9 |->
        <<(box[1] - 1) * 3 + 1 + ((k - 1) \div 3),
          (box[2] - 1) * 3 + 1 + ((k - 1) % 3)>>]

\* a faulty affected_positions without the cells of the box (used to test C5)
affected_positions_lines(row, col) ==
    LET NotRow(p) == p[1] # row
        NotCol(p) == p[2] # col
    IN  SelectSeq([r \in 1..9 |-> <<r, col>>], NotRow)
        \o SelectSeq([c \in 1..9 |-> <<row, c>>], NotCol)

\* the cells affected_positions yields, in the order it yields them: the
\* other rows of the column, the other columns of the row, then the cells
\* of the box in neither the row nor the column
affected_positions(row, col) ==
    LET NotRow(p) == p[1] # row
        NotCol(p) == p[2] # col
        NotRowCol(p) == p[1] # row /\ p[2] # col
    IN  SelectSeq([r \in 1..9 |-> <<r, col>>], NotRow)
        \o SelectSeq([c \in 1..9 |-> <<row, c>>], NotCol)
        \o SelectSeq(box_cells(box_position(row, col)), NotRowCol)

(***************************************************************************)
(* src/smarter_sudoku.py: the mutation primitives.  placed_grid is a dict; *)
(* the model keeps 0 for a cell that is not a key of it.                   *)
(***************************************************************************)
\* faulty tests: only the placed value of the peer (used to test C6), only
\* the candidate set of the peer (used to test C7)
place_raises_placed(g, pl, aff_pos, value) == value = pl[aff_pos]

place_raises_only_option(g, pl, aff_pos, value) == {value} = g[aff_pos]

\* a faulty test that also raises when the peer merely has value among two
\* candidates (used to test C18)
place_raises_candidate(g, pl, aff_pos, value) ==
    \/ value = pl[aff_pos]
    \/ (value \in g[aff_pos] /\ Cardinality(g[aff_pos]) <= 2)

\* the two tests of place's loop that raise ValueError, for one peer
place_raises(g, pl, aff_pos, value) ==
    \/ value = pl[aff_pos]
    \/ {value} = g[aff_pos]

\* faulty places: value is discarded from every other cell of the grid (used
\* to test C17), from no peer (used to test C19), the candidate set of the
\* cell is not cleared (used to test C20)
place_discard_all(g, pl, row, col, value) ==
    [grid |-> [c \in DCells |->
                  IF c = <<row, col>> THEN {} ELSE g[c] \ {value}],
     placed |-> [c \in DCells |-> IF c = <<row, col>> THEN value ELSE pl[c]],
     raised |-> LET aff == affected_positions(row, col)
                IN  \E i \in 1..Len(aff) : place_raises(g, pl, aff[i], value)]

place_no_discard(g, pl, row, col, value) ==
    [grid |-> [c \in DCells |-> IF c = <<row, col>> THEN {} ELSE g[c]],
     placed |-> [c \in DCells |-> IF c = <<row, col>> THEN value ELSE pl[c]],
     raised |-> LET aff == affected_positions(row, col)
                IN  \E i \in 1..Len(aff) : place_raises(g, pl, aff[i], value)]

place_keep_candidates(g, pl, row, col, value) ==
    LET aff == affected_positions(row, col)
    IN  [grid |-> [c \in DCells |->
                      IF c \in {aff[i] : i \in 1..Len(aff)}
                      THEN g[c] \ {value} ELSE g[c]],
         placed |-> [c \in DCells |->
                        IF c = <<row, col>> THEN value ELSE pl[c]],
         raised |-> \E i \in 1..Len(aff) : place_raises(g, pl, aff[i], value)]

\* SudokuGrid.place.  The loop over affected_positions stops at the first
\* peer that raises; the peers before it have lost value, the assignments
\* before the loop are done.  The tests on a peer read only that peer, which
\* the earlier iterations have not written, so the first raising peer is the
\* first one that raises in the state before the call.
place(g, pl, row, col, value) ==
    LET aff == affected_positions(row, col)
        bad == {i \in 1..Len(aff) : place_raises(g, pl, aff[i], value)}
        stop == IF bad = {} THEN Len(aff) + 1
                ELSE CHOOSE i \in bad : \A j \in bad : i <= j
        done == {aff[i] : i \in 1..(stop - 1)}
    IN  [grid |-> [c \in DCells |->
                      IF c = <<row, col>> THEN {}
                      ELSE IF c \in done THEN g[c] \ {value}
                      ELSE g[c]],
         placed |-> [c \in DCells |-> IF c = <<row, col>> THEN value ELSE pl[c]],
         raised |-> bad # {}]

\* a faulty remove that leaves the candidate set as it is (used to test C9)
remove_nothing(g, row, col, value) ==
    [grid |-> g, raised |-> value \notin g[<<row, col>>]]

\* SudokuGrid.remove: set.remove raises KeyError when value is absent
remove(g, row, col, value) ==
    [grid |-> [c \in DCells |->
                  IF c = <<row, col>> THEN g[c] \ {value} ELSE g[c]],
     raised |-> value \notin g[<<row, col>>]]

\* the action objects
Place(row, col, value) ==
    [op |-> "Place", row |-> row, col |-> col, value |-> value]

Remove(row, col, value) ==
    [op |-> "Remove", row |-> row, col |-> col, value |-> value]

(***************************************************************************)
(* src/smarter_sudoku.py: the strategies.  find takes only the first       *)
(* action a strategy yields, so each strategy is modelled by the set of    *)
(* actions that can be its first one: a single action where the order of   *)
(* the scan is fixed by ranges, lists and dict insertion, several where it *)
(* depends on the iteration order of a set.  The empty set stands for a    *)
(* generator that yields nothing.                                          *)
(***************************************************************************)
MinOf(S) == CHOOSE x \in S : \A y \in S : x <= y

\* remaining_values(cells)
remaining_values(g, cells) == UNION {g[c] : c \in cells}

\* locations_for(value, cells)
locations_for(g, value, cells) == {c \in cells : value \in g[c]}

row_cells(row) == {<<row, c>> : c \in cols}
col_cells(col) == {<<r, col>> : r \in rows}
box_cell_set(box) == {box_cells(box)[k] : k \in 1..9}

\* position of a cell in the insertion order of self.grid (row-major)
grid_order(c) == (c[1] - 1) * 9 + c[2]

\* a faulty first strategy that places a digit in a cell that still has two
\* candidates (used to test C3)
find_one_of_two_digits_in_cell(g) ==
    LET few == {c \in DCells : Cardinality(g[c]) \in {1, 2}}
    IN  IF few = {} THEN {}
        ELSE LET c == CHOOSE x \in few :
                          \A y \in few : grid_order(x) <= grid_order(y)
             IN  {Place(c[1], c[2], v) : v \in g[c]}

\* for (row, col), values in self.grid.items(): the first cell with one
\* candidate
find_only_one_digit_in_cell(g) ==
    LET single == {c \in DCells : Cardinality(g[c]) = 1}
    IN  IF single = {} THEN {}
        ELSE LET c == CHOOSE x \in single :
                          \A y \in single : grid_order(x) <= grid_order(y)
             IN  {Place(c[1], c[2], v) : v \in g[c]}

\* the (col, value) pairs of a row whose value has one position in the row
only_place_in_row(g, row) ==
    {cv \in cols \X (1..9) :
        locations_for(g, cv[2], row_cells(row)) = {<<row, cv[1]>>}}

\* occurrences is filled column by column, so the first value with a single
\* position is one of the leftmost such column
find_only_one_place_in_row(g) ==
    LET hit == {row \in rows : only_place_in_row(g, row) # {}}
    IN  IF hit = {} THEN {}
        ELSE LET row == MinOf(hit)
                 col == MinOf({cv[1] : cv \in only_place_in_row(g, row)})
             IN  {Place(row, col, cv[2]) :
                     cv \in {x \in only_place_in_row(g, row) : x[1] = col}}

only_place_in_col(g, col) ==
    {rv \in rows \X (1..9) :
        locations_for(g, rv[2], col_cells(col)) = {<<rv[1], col>>}}

find_only_one_place_in_col(g) ==
    LET hit == {col \in cols : only_place_in_col(g, col) # {}}
    IN  IF hit = {} THEN {}
        ELSE LET col == MinOf(hit)
                 row == MinOf({rv[1] : rv \in only_place_in_col(g, col)})
             IN  {Place(row, col, rv[2]) :
                     rv \in {x \in only_place_in_col(g, col) : x[1] = row}}

\* a faulty variant that places the digits fitting exactly one cell of a box
\* (used to test C21)
find_hidden_single_in_box(g) ==
    UNION {LET loc == locations_for(g, bd[2], box_cell_set(boxes[bd[1]]))
           IN  IF Cardinality(loc) = 1
               THEN {Place(c[1], c[2], bd[2]) : c \in loc}
               ELSE {} : bd \in (1..9) \X (1..9)}

\* boxes in the order of the list boxes, cells in the order of box_cells
find_only_one_place_in_box(g) ==
    LET hit == {bk \in (1..9) \X (1..9) :
                   Cardinality(g[box_cells(boxes[bk[1]])[bk[2]]]) = 1}
    IN  IF hit = {} THEN {}
        ELSE LET b == MinOf({bk[1] : bk \in hit})
                 k == MinOf({bk[2] : bk \in {x \in hit : x[1] = b}})
                 c == box_cells(boxes[b])[k]
             IN  {Place(c[1], c[2], v) : v \in g[c]}

\* a faulty variant that does not test "digit in values" on the cells of the
\* row outside the box (used to test C10)
box_row_first_untested(g, box, digit) ==
    LET digit_rows == {row \in box_cell_axes(box[1]) :
                          \E col \in box_cell_axes(box[2]) : digit \in g[<<row, col>>]}
    IN  IF Cardinality(digit_rows) # 1 THEN {}
        ELSE LET row == CHOOSE r \in digit_rows : TRUE
                 out == {col \in cols : box_position(row, col) # box}
             IN  {Remove(row, MinOf(out), digit)}

\* for one box and one digit: the first Remove of the inner loops
box_row_first(g, box, digit) ==
    LET digit_rows == {row \in box_cell_axes(box[1]) :
                          \E col \in box_cell_axes(box[2]) : digit \in g[<<row, col>>]}
    IN  IF Cardinality(digit_rows) # 1 THEN {}
        ELSE LET row == CHOOSE r \in digit_rows : TRUE
                 out == {col \in cols : /\ box_position(row, col) # box
                                        /\ digit \in g[<<row, col>>]}
             IN  IF out = {} THEN {} ELSE {Remove(row, MinOf(out), digit)}

box_row_yields(g, box) ==
    UNION {box_row_first(g, box, digit) :
              digit \in remaining_values(g, box_cell_set(box))}

find_digits_in_one_box_row(g) ==
    LET hit == {b \in 1..9 : box_row_yields(g, boxes[b]) # {}}
    IN  IF hit = {} THEN {} ELSE box_row_yields(g, boxes[MinOf(hit)])

box_col_first(g, box, digit) ==
    LET digit_cols == {col \in box_cell_axes(box[2]) :
                          \E row \in box_cell_axes(box[1]) : digit \in g[<<row, col>>]}
    IN  IF Cardinality(digit_cols) # 1 THEN {}
        ELSE LET col == CHOOSE c \in digit_cols : TRUE
                 out == {row \in rows : /\ box_position(row, col) # box
                                        /\ digit \in g[<<row, col>>]}
             IN  IF out = {} THEN {} ELSE {Remove(MinOf(out), col, digit)}

box_col_yields(g, box) ==
    UNION {box_col_first(g, box, digit) :
              digit \in remaining_values(g, box_cell_set(box))}

find_digits_in_one_box_col(g) ==
    LET hit == {b \in 1..9 : box_col_yields(g, boxes[b]) # {}}
    IN  IF hit = {} THEN {} ELSE box_col_yields(g, boxes[MinOf(hit)])

\* the body of the loop over combinations(remaining_values, 2) for the pair
\* taken as (fst_val, snd_val): the actions that can be the first one it
\* yields, over both ways of unpacking common_locations as (fst_loc, snd_loc)
subset_pair_first(g, cells, fst_val, snd_val) ==
    LET fst_locations == locations_for(g, fst_val, cells)
        snd_locations == locations_for(g, snd_val, cells)
        common_locations == {loc \in fst_locations \cap snd_locations :
                                {fst_val, snd_val} \subseteq g[loc]}
        pair == {fst_val, snd_val}
        naked(fst_loc, snd_loc) ==
            IF /\ Cardinality(fst_locations) > 2 \/ Cardinality(snd_locations) > 2
               /\ g[fst_loc] = g[snd_loc]
               /\ g[snd_loc] = pair
            THEN IF fst_locations \ common_locations # {}
                 THEN {Remove(o[1], o[2], fst_val) :
                          o \in fst_locations \ common_locations}
                 ELSE {Remove(o[1], o[2], snd_val) :
                          o \in snd_locations \ common_locations}
            ELSE {}
        hidden(fst_loc, snd_loc) ==
            IF /\ Cardinality(fst_locations) = 2
               /\ Cardinality(snd_locations) = 2
            THEN IF g[fst_loc] \ pair # {}
                 THEN {Remove(fst_loc[1], fst_loc[2], val) : val \in g[fst_loc] \ pair}
                 ELSE {Remove(snd_loc[1], snd_loc[2], val) : val \in g[snd_loc] \ pair}
            ELSE {}
        first(fst_loc, snd_loc) ==
            IF naked(fst_loc, snd_loc) # {} THEN naked(fst_loc, snd_loc)
            ELSE hidden(fst_loc, snd_loc)
    IN  IF Cardinality(common_locations) # 2 THEN {}
        ELSE UNION {first(l[1], l[2]) :
                       l \in {x \in common_locations \X common_locations : x[1] # x[2]}}

\* one unit (the cells of a row, a column or a box): the first actions over
\* every iteration order of remaining_values
subset_yields(g, cells) ==
    UNION {subset_pair_first(g, cells, q[1], q[2]) :
              q \in {x \in remaining_values(g, cells) \X remaining_values(g, cells) :
                        x[1] # x[2]}}

find_subsets_in_row(g) ==
    LET hit == {row \in rows : subset_yields(g, row_cells(row)) # {}}
    IN  IF hit = {} THEN {} ELSE subset_yields(g, row_cells(MinOf(hit)))

find_subsets_in_col(g) ==
    LET hit == {col \in cols : subset_yields(g, col_cells(col)) # {}}
    IN  IF hit = {} THEN {} ELSE subset_yields(g, col_cells(MinOf(hit)))

find_subsets_in_box(g) ==
    LET hit == {b \in 1..9 : subset_yields(g, box_cell_set(boxes[b])) # {}}
    IN  IF hit = {} THEN {} ELSE subset_yields(g, box_cell_set(boxes[MinOf(hit)]))

\* self.strategies, by position in the list
strategies(i, g) ==
    CASE i = 1 -> find_only_one_digit_in_cell(g)
      [] i = 2 -> find_only_one_place_in_row(g)
      [] i = 3 -> find_only_one_place_in_col(g)
      [] i = 4 -> find_only_one_place_in_box(g)
      [] i = 5 -> find_digits_in_one_box_row(g)
      [] i = 6 -> find_digits_in_one_box_col(g)
      [] i = 7 -> find_subsets_in_row(g)
      [] i = 8 -> find_subsets_in_col(g)
      [] i = 9 -> find_subsets_in_box(g)

NStrategies == 9

(***************************************************************************)
(* src/smarter_sudoku.py: load, find and the module's driver lines         *)
(* s.load(...); s.find().                                                  *)
(***************************************************************************)
\* HARD_TEST_GRID
HARD_TEST_GRID ==
    << <<0,0,0,8,0,1,0,0,0>>,
       <<7,0,0,0,0,9,0,5,0>>,
       <<0,0,0,2,0,0,4,0,0>>,
       <<9,0,0,0,0,0,0,0,0>>,
       <<6,0,0,0,1,0,3,4,0>>,
       <<0,5,0,0,0,3,1,0,0>>,
       <<0,0,2,0,0,0,0,0,0>>,
       <<0,0,0,1,0,0,6,0,0>>,
       <<5,3,0,0,6,4,0,0,9>> >>

\* a puzzle with one solution on which find_subsets_in_col yields
PAIR_COL_GRID ==
    << <<3,4,5,0,0,1,0,2,0>>,
       <<0,2,0,0,0,0,8,5,1>>,
       <<0,9,1,2,5,6,4,0,0>>,
       <<9,1,3,4,0,7,0,6,0>>,
       <<0,0,7,0,0,0,0,0,2>>,
       <<2,5,0,0,8,0,1,0,7>>,
       <<1,0,0,5,9,0,7,0,0>>,
       <<4,0,0,0,0,0,0,0,5>>,
       <<0,3,0,7,0,4,0,0,0>> >>

\* a puzzle with one solution on which find_subsets_in_box yields
PAIR_BOX_GRID ==
    << <<5,0,0,0,7,8,0,2,6>>,
       <<6,0,0,0,4,0,0,0,1>>,
       <<0,8,0,6,0,0,4,0,0>>,
       <<3,0,1,0,2,4,0,6,0>>,
       <<7,6,8,0,0,9,0,4,0>>,
       <<4,2,0,3,0,6,1,9,0>>,
       <<0,4,7,0,0,0,0,8,5>>,
       <<0,0,6,0,9,0,0,0,4>>,
       <<8,0,0,0,0,0,0,0,0>> >>

\* the puzzles given to load: the ones given to solve, and three puzzles
\* that need the later strategies, each with at most MaxExtra characters of
\* ExtraPool written over it
DeduceInputs ==
    SearchInputs \cup
    {MakePuzzle(base, {}, e) :
        base \in {HARD_TEST_GRID, PAIR_COL_GRID, PAIR_BOX_GRID}, e \in ExtraSets}

NoAction == [op |-> "none", row |-> 0, col |-> 0, value |-> 0, strategy |-> 0]

Performed(a, i) ==
    [op |-> a.op, row |-> a.row, col |-> a.col, value |-> a.value, strategy |-> i]

\* positions (0-based, row-major) at or after k whose character is not ' '
load_from(g, k) == {j \in k..80 : g[(j \div 9) + 1][(j % 9) + 1] # 0}

\* Place.perform / Remove.perform on the current grid
perform(a, i) ==
    /\ last' = Performed(a, i)
    /\ IF a.op = "Place"
       THEN LET r == place(grid, placed_grid, a.row, a.col, a.value)
            IN  /\ grid' = r.grid
                /\ placed_grid' = r.placed
                /\ pc' = IF r.raised THEN "error" ELSE pc
       ELSE LET r == remove(grid, a.row, a.col, a.value)
            IN  /\ grid' = IF r.raised THEN grid ELSE r.grid
                /\ placed_grid' = placed_grid
                /\ pc' = IF r.raised THEN "keyerror" ELSE pc

\* load, one non-blank character: self.place(row_num, col_num, int(cell))
LoadPlace ==
    /\ pc = "load"
    /\ load_from(lines, loadPos) # {}
    /\ LET k == MinOf(load_from(lines, loadPos))
       IN  /\ perform(Place((k \div 9) + 1, (k % 9) + 1,
                            lines[(k \div 9) + 1][(k % 9) + 1]), 0)
           /\ loadPos' = k + 1
    /\ UNCHANGED <<lines, svars, pvars>>

\* load returns, the driver calls find
LoadReturn ==
    /\ pc = "load"
    /\ load_from(lines, loadPos) = {}
    /\ pc' = "find"
    /\ loadPos' = 81
    /\ last' = NoAction
    /\ UNCHANGED <<lines, placed_grid, grid, svars, pvars>>

\* find, one pass of "for strategy in self.strategies" from position i: the
\* first strategy whose next(strategy(), None) is an action, or 0 when the
\* loop ends without break
RECURSIVE scan_strategies(_, _)
scan_strategies(g, i) ==
    IF i > NStrategies THEN 0
    ELSE IF strategies(i, g) # {} THEN i
    ELSE scan_strategies(g, i + 1)

\* a faulty scan that prefers the last strategy of the list (used to test C8)
RECURSIVE scan_strategies_down(_, _)
scan_strategies_down(g, i) ==
    IF i < 1 THEN 0
    ELSE IF strategies(i, g) # {} THEN i
    ELSE scan_strategies_down(g, i - 1)

last_strategy(g) == scan_strategies_down(g, NStrategies)

first_strategy(g) == scan_strategies(g, 1)

\* find: the pass finds an action, performs it and breaks
FindStep ==
    /\ pc = "find"
    /\ LET i == first_strategy(grid)
       IN  /\ i # 0
           /\ \E a \in strategies(i, grid) : perform(a, i)
    /\ UNCHANGED <<lines, loadPos, svars, pvars>>

\* find: the for loop ends without break, find returns
FindReturn ==
    /\ pc = "find"
    /\ first_strategy(grid) = 0
    /\ pc' = "stuck"
    /\ last' = NoAction
    /\ UNCHANGED <<lines, loadPos, placed_grid, grid, svars, pvars>>

SIdle ==
    /\ puzzle = << >>
    /\ spc = "idle"
    /\ rpos = 0
    /\ maps = << >>
    /\ frames = << >>
    /\ yielded = EmptyBag
    /\ result = Pending

InitDeduce ==
    /\ lines \in DeduceInputs
    /\ pc = "load"
    /\ loadPos = 0
    /\ placed_grid = [c \in DCells |-> 0]
    /\ grid = [c \in DCells |-> 1..9]
    /\ last = NoAction
    /\ SIdle
    /\ PIdle

NextDeduce == LoadPlace \/ LoadReturn \/ FindStep \/ FindReturn

SpecDeduce == InitDeduce /\ [][NextDeduce]_vars

(***************************************************************************)
(* The module-level topology functions called on their own, as the tests   *)
(* of src/sudoku.py call other_cells_affected: one call per behaviour,     *)
(* over every argument in range.                                           *)
(***************************************************************************)
CallSubsqRange ==
    /\ call.fn = "subsq_range"
    /\ Len(ret) = 0
    /\ ret' = <<subsq_range(call.arg)>>
    /\ UNCHANGED <<call, svars, dvars>>

CallOtherCellsAffected ==
    /\ call.fn = "other_cells_affected"
    /\ Len(ret) = 0
    /\ ret' = <<other_cells_affected(call.arg)>>
    /\ UNCHANGED <<call, svars, dvars>>

\* list(affected_positions(row, col))
CallAffectedPositions ==
    /\ call.fn = "affected_positions"
    /\ Len(ret) = 0
    /\ ret' = <<affected_positions(call.arg[1], call.arg[2])>>
    /\ UNCHANGED <<call, svars, dvars>>

TopologyCalls ==
    {[fn |-> "subsq_range", arg |-> idx] : idx \in Idx}
    \cup {[fn |-> "other_cells_affected", arg |-> c] : c \in Cells}
    \cup {[fn |-> "affected_positions", arg |-> c] : c \in DCells}

InitTopology ==
    /\ call \in TopologyCalls
    /\ ret = << >>
    /\ SIdle
    /\ DIdle

NextTopology ==
    CallSubsqRange \/ CallOtherCellsAffected \/ CallAffectedPositions

SpecTopology == InitTopology /\ [][NextTopology]_vars

(***************************************************************************)
(* Claims about src/sudoku.py.                                             *)
(***************************************************************************)
\* two distinct cells that share a row, a column or a 3x3 subsquare
SharesUnit(a, b) ==
    /\ a # b
    /\ \/ a[1] = b[1]
       \/ a[2] = b[2]
       \/ /\ a[1] \div SQS = b[1] \div SQS
          /\ a[2] \div SQS = b[2] \div SQS

GivenAt(g, c) == g[c[1] + 1][c[2] + 1]

\* s (cell -> value) is a valid completion of the puzzle g
IsCompletion(s, g) ==
    /\ \A c \in Cells : s[c] \in Values
    /\ \A c \in Cells : GivenAt(g, c) # 0 => s[c] = GivenAt(g, c)
    /\ \A a, b \in Cells : SharesUnit(a, b) => s[a] # s[b]

GivensConflict(g) ==
    \E a, b \in Cells :
        /\ SharesUnit(a, b)
        /\ GivenAt(g, a) # 0
        /\ GivenAt(g, a) = GivenAt(g, b)

\* every way of filling the blank cells of f with values that no given peer
\* holds: a superset of the valid completions
RECURSIVE Fillings(_, _, _)
Fillings(g, f, todo) ==
    IF todo = {} THEN {f}
    ELSE LET c == CHOOSE x \in todo : TRUE
             free == {v \in Values :
                         \A p \in Cells : SharesUnit(p, c) => GivenAt(g, p) # v}
         IN  UNION {Fillings(g, [x \in Cells |-> IF x = c THEN v ELSE f[x]],
                             todo \ {c}) : v \in free}

\* all valid completions of the puzzle g
ValidCompletions(g) ==
    IF GivensConflict(g) THEN {}
    ELSE {s \in Fillings(g, [c \in Cells |-> GivenAt(g, c)],
                         {c \in Cells : GivenAt(g, c) = 0}) :
             IsCompletion(s, g)}

\* the grid view in which every cell has the one candidate s gives it
AsView(s) == [c \in Cells |-> {s[c]}]

\* C1 (as claimed): every grid yielded by solutions() is, when it is
\* yielded, a complete valid completion of the givens: every cell has
\* exactly one candidate, givens keep their value, peers differ.
C1_YieldedIsValidCompletion ==
    spc = "yield" =>
        /\ \A c \in Cells : Cardinality(Lookup(maps, c)) = 1
        /\ IsCompletion([c \in Cells |-> CHOOSE v \in Lookup(maps, c) : TRUE],
                        puzzle)

\* C2: when the enumeration is exhausted, every valid completion of the
\* puzzle has been yielded, and exactly once.
C2_EveryCompletionYieldedOnce ==
    spc = "done" =>
        \A s \in ValidCompletions(puzzle) : CopiesIn(AsView(s), yielded) = 1

\* C2 witness: an exhausted enumeration of a puzzle with two valid completions
C2_Witness ==
    /\ spc = "done"
    /\ Cardinality(ValidCompletions(puzzle)) = 2

\* C4 (as claimed): solve returns None for every puzzle without a valid
\* completion, and a grid only when a valid completion exists.
C4_NoneIffUnsatisfiable ==
    result # Pending => (result = None <=> ValidCompletions(puzzle) = {})


(***************************************************************************)
(* Claims about src/smarter_sudoku.py.                                     *)
(***************************************************************************)
\* the cells that share a row, a column or a 3x3 box with (row, col)
Peers(row, col) ==
    {p \in DCells :
        /\ p # <<row, col>>
        /\ \/ p[1] = row
           \/ p[2] = col
           \/ /\ (p[1] - 1) \div 3 = (row - 1) \div 3
              /\ (p[2] - 1) \div 3 = (col - 1) \div 3}

\* the solved grid of HARD_TEST_GRID and of PAIR_COL_GRID
HARD_SOLVED ==
    << <<3,4,5,8,7,1,9,2,6>>,
       <<7,2,6,3,4,9,8,5,1>>,
       <<8,9,1,2,5,6,4,7,3>>,
       <<9,1,3,4,2,7,5,6,8>>,
       <<6,8,7,9,1,5,3,4,2>>,
       <<2,5,4,6,8,3,1,9,7>>,
       <<1,6,2,5,9,8,7,3,4>>,
       <<4,7,9,1,3,2,6,8,5>>,
       <<5,3,8,7,6,4,2,1,9>> >>

\* SOLVED_TEST_GRID with 4 and 9 exchanged in rows 1 and 3, columns 3 and 7:
\* the second solution of the puzzles that blank those four cells
SOLVED_TEST_GRID_2 ==
    << <<5,3,9,1,7,8,4,2,6>>,
       <<6,7,2,9,4,3,8,5,1>>,
       <<1,8,4,6,5,2,9,7,3>>,
       <<3,9,1,7,2,4,5,6,8>>,
       <<7,6,8,5,1,9,3,4,2>>,
       <<4,2,5,3,8,6,1,9,7>>,
       <<9,4,7,2,3,1,6,8,5>>,
       <<2,1,6,8,9,5,7,3,4>>,
       <<8,5,3,4,6,7,2,1,9>> >>

\* every valid solution of every puzzle of DeduceInputs is one of these
SolvedGrids == {SOLVED_TEST_GRID, SOLVED_TEST_GRID_2, HARD_SOLVED}

\* S is a valid solution of the puzzle g: it keeps the givens, and every
\* row, column and box holds every digit
IsSolutionOf(S, g) ==
    /\ \A c \in DCells : g[c[1]][c[2]] # 0 => S[c[1]][c[2]] = g[c[1]][c[2]]
    /\ \A row \in rows : {S[c[1]][c[2]] : c \in row_cells(row)} = 1..9
    /\ \A col \in cols : {S[c[1]][c[2]] : c \in col_cells(col)} = 1..9
    /\ \A b \in 1..9 : {S[c[1]][c[2]] : c \in box_cell_set(boxes[b])} = 1..9

\* the state agrees with S: placed cells hold S's digit, unplaced cells
\* still have it as a candidate
AgreesWith(S) ==
    \A c \in DCells :
        IF placed_grid[c] # 0 THEN placed_grid[c] = S[c[1]][c[2]]
        ELSE S[c[1]][c[2]] \in grid[c]

\* C3: in every state of load followed by find, for every valid solution S
\* of the puzzle, each placed cell holds S's digit and each unplaced cell
\* still has S's digit among its candidates.
C3_DeductiveSoundness ==
    \A S \in SolvedGrids : IsSolutionOf(S, lines) => AgreesWith(S)

\* C3 witness: find has just applied a Remove of find_subsets_in_col to a
\* puzzle that has a solution
C3_Witness ==
    /\ pc = "find"
    /\ last.op = "Remove"
    /\ last.strategy = 8
    /\ \E S \in SolvedGrids : IsSolutionOf(S, lines)

\* C5: after a place(row, col, value) that returned without raising,
\* placed_grid[(row, col)] = value, the candidate set of (row, col) is empty
\* and value is a candidate of none of the 20 peers.
C5_PlacementPropagation ==
    (last.op = "Place" /\ pc # "error") =>
        /\ placed_grid[<<last.row, last.col>>] = last.value
        /\ grid[<<last.row, last.col>>] = {}
        /\ Cardinality(Peers(last.row, last.col)) = 20
        /\ \A p \in Peers(last.row, last.col) : last.value \notin grid[p]

\* C5 witness: a place made by find for the second strategy has returned
C5_Witness ==
    /\ last.op = "Place"
    /\ last.strategy = 2
    /\ pc = "find"

\* C6: place(row, col, value) raises exactly when, before the call, some
\* peer has value placed or some peer's candidate set is {value}.
C6_ContradictionIff ==
    [][(pc \in {"load", "find"} /\ last'.op = "Place") =>
          ((pc' = "error") <=>
              \E p \in Peers(last'.row, last'.col) :
                  \/ placed_grid[p] = last'.value
                  \/ grid[p] = {last'.value})]_vars

\* C6 witness: place raised although no peer has the value placed (a peer
\* had it as its only candidate)
C6_Witness ==
    /\ pc = "error"
    /\ last.op = "Place"
    /\ \A p \in Peers(last.row, last.col) : placed_grid[p] # last.value

\* C7: when two given cells that share a row, a column or a box carry the
\* same digit, load does not return: it is still placing givens or it has
\* raised the contradiction error.
C7_LoadRejectsConflict ==
    (pc \in {"find", "stuck", "keyerror"} \/ load_from(lines, loadPos) = {}) =>
        (GivensConflict(lines) => pc = "error")

\* C7 witness: load raised on conflicting givens
C7_Witness ==
    /\ pc = "error"
    /\ last.strategy = 0
    /\ GivensConflict(lines)

\* the strategies that yield an action in grid g
Yielding(g) == {i \in 1..9 : strategies(i, g) # {}}

\* C8: every pass of find applies one action, the first one of the first
\* strategy in the list that yields any, and find returns only when no
\* strategy yields an action.
C8_DriverPriority ==
    [][pc = "find" =>
          IF Yielding(grid) = {}
          THEN pc' = "stuck" /\ grid' = grid /\ placed_grid' = placed_grid
          ELSE /\ pc' # "stuck"
               /\ last'.strategy = MinOf(Yielding(grid))
               /\ \E a \in strategies(last'.strategy, grid) :
                     /\ last' = Performed(a, last'.strategy)
                     /\ \/ /\ a.op = "Place"
                           /\ grid' = place(grid, placed_grid, a.row, a.col, a.value).grid
                        \/ /\ a.op = "Remove"
                           /\ grid' = remove(grid, a.row, a.col, a.value).grid]_vars

\* C8 witness: a pass in which only the last strategy yields has applied its
\* action
C8_Witness ==
    /\ pc = "find"
    /\ last.strategy = 9

\* the number of candidates over all cells
RECURSIVE SumCard(_, _)
SumCard(g, k) ==
    IF k = 0 THEN 0
    ELSE Cardinality(g[<<((k - 1) \div 9) + 1, ((k - 1) % 9) + 1>>]) + SumCard(g, k - 1)

TotalCandidates(g) == SumCard(g, 81)

\* C9: every run of load followed by find stops, in Stuck or with the
\* contradiction error, and every action find applies makes the total
\* number of candidates smaller.
C9_FindTerminates ==
    /\ <>(pc \in {"stuck", "error"})
    /\ [][(pc = "find" /\ pc' # "stuck") =>
             TotalCandidates(grid') < TotalCandidates(grid)]_vars

\* C9 witness: find has returned from HARD_TEST_GRID with every cell placed
C9_Witness ==
    /\ pc = "stuck"
    /\ lines = HARD_TEST_GRID
    /\ \A c \in DCells : placed_grid[c] # 0

\* C10: every Remove the driver applies takes away a value that is a
\* candidate of its cell, so remove never raises KeyError.
C10_NoInvalidRemoval == pc # "keyerror"

\* C10 witness: a Remove yielded by a subset strategy has been applied
C10_Witness ==
    /\ last.op = "Remove"
    /\ last.strategy = 7
    /\ pc = "find"

\* load and find are loops of one thread that nothing suspends: a step that
\* can be taken is taken.  This is WF_vars(NextDeduce) with
\* ENABLED <<NextDeduce>>_vars written out from the guards of the four
\* actions: in load either LoadPlace or LoadReturn can step, in find either
\* FindStep or FindReturn.
Running == pc \in {"load", "find"}

SpecDeduceFair ==
    SpecDeduce /\ ([]<>(~Running) \/ []<><<NextDeduce>>_vars)


(***************************************************************************)
(* src/sudoku.py: SudokuGrid(read_grid(g)).display() on filled grids, as   *)
(* test_grid_display calls it.  The grids are the three solved grids, each *)
(* transposed or not and with its digits shifted cyclically, and the       *)
(* filled grids of SearchInputs (which carry conflicting digits).          *)
(***************************************************************************)
Transpose(g) == [r \in 1..GRID_SIZE |-> [c \in 1..GRID_SIZE |-> g[c][r]]]

Shift(g, k) ==
    [r \in 1..GRID_SIZE |-> [c \in 1..GRID_SIZE |-> ((g[r][c] - 1 + k) % 9) + 1]]

DisplayInputs ==
    {Shift(g, k) : g \in SolvedGrids \cup {Transpose(h) : h \in SolvedGrids},
                   k \in 0..8}
    \cup {MakePuzzle(SOLVED_TEST_GRID, {}, e) : e \in ExtraSets}

\* the constructor has consumed read_grid(grid) and returns; display() is
\* called on the new object
Display ==
    /\ spc = "new"
    /\ non_blank_from(puzzle, rpos) = {}
    /\ spc' = "shown"
    /\ result' = Grid(display(maps))
    /\ UNCHANGED <<puzzle, rpos, maps, frames, yielded, dvars, pvars>>

InitDisplay ==
    /\ puzzle \in DisplayInputs
    /\ spc = "new"
    /\ rpos = 0
    /\ maps = <<EmptyLayer, blank_grid>>
    /\ frames = << >>
    /\ yielded = EmptyBag
    /\ result = Pending
    /\ DIdle
    /\ PIdle

NextDisplay == SetGiven \/ Display

SpecDisplay == InitDisplay /\ [][NextDisplay]_vars

\* g is fully filled and self-consistent
FilledConsistent(g) ==
    /\ \A c \in Cells : GivenAt(g, c) \in Values
    /\ ~GivensConflict(g)

\* C13: for a fully filled, self-consistent grid g,
\* SudokuGrid(read_grid(g)).display() equals g, and every cell is left with
\* exactly its own digit as sole candidate.
C13_DisplayRoundTrip ==
    (spc = "shown" /\ FilledConsistent(puzzle)) =>
        /\ result = Grid(puzzle)
        /\ \A c \in Cells : Lookup(maps, c) = {GivenAt(puzzle, c)}

\* C13 witness: display() has returned for the test's SOLVED_TEST_GRID
C13_Witness ==
    /\ spc = "shown"
    /\ puzzle = SOLVED_TEST_GRID
    /\ result.kind = "grid"

(***************************************************************************)
(* Claims about the scopes of search_subgrid.                              *)
(***************************************************************************)
\* the number of search_subgrid scopes that are open: one per generator
\* frame below the innermost one, and at a yield one per frame as well
\* (the call that yields has no frame of its own in frames)
OpenScopes ==
    CASE spc = "run" -> Len(frames) - 1
      [] spc = "yield" -> Len(frames)
      [] OTHER -> 0

\* the layers of the constructor: ChainMap({}, blank_grid) after the givens
ConstructorLayers(m) == SubSeq(m, Len(m) - 1, Len(m))

\* C14: entering a scope adds one layer and leaves the layers below it as
\* they were, leaving a scope removes that layer and shows exactly what was
\* below it, so that the view after a scope is the view before it; the
\* overlay depth is the number of open scopes, 81 at every yield and 0
\* after exhaustion, where the candidate sets are those the constructor
\* left.
C14_ScopedBacktracking ==
    /\ [](Len(maps) = 2 + OpenScopes)
    /\ [](spc = "yield" => OpenScopes = 81)
    /\ [](spc = "done" => OpenScopes = 0)
    /\ [][spc # "new" =>
             /\ \/ maps' = maps
                \/ Tail(maps') = maps
                \/ maps' = Tail(maps)
             /\ View(ConstructorLayers(maps')) = View(ConstructorLayers(maps))]_vars

\* C14 witness: an enumeration that yielded a grid is exhausted and every
\* scope is closed
C14_Witness ==
    /\ spc = "done"
    /\ BagCardinality(yielded) >= 1
    /\ Len(maps) = 2

(***************************************************************************)
(* Claims about the order in which the strategies scan.                    *)
(***************************************************************************)
\* the digits that fit exactly one cell of the row
HiddenSingles(g, row) ==
    {d \in 1..9 : Cardinality(locations_for(g, d, row_cells(row))) = 1}

\* C15 (as claimed): when find applies an action of
\* find_only_one_digit_in_cell, it is the Place for the first cell in
\* row-major order that has one candidate; when it applies an action of
\* find_only_one_place_in_row, it is the Place, in the lowest row that has
\* a digit fitting exactly one cell, for the smallest such digit.
C15_DeterministicTieBreak ==
    [][/\ (pc = "find" /\ last'.strategy = 1) =>
              LET single == {c \in DCells : Cardinality(grid[c]) = 1}
                  c == CHOOSE x \in single :
                           \A y \in single : grid_order(x) <= grid_order(y)
              IN  /\ last'.op = "Place"
                  /\ <<last'.row, last'.col>> = c
                  /\ grid[c] = {last'.value}
       /\ (pc = "find" /\ last'.strategy = 2) =>
              LET row == MinOf({r \in rows : HiddenSingles(grid, r) # {}})
                  digit == MinOf(HiddenSingles(grid, row))
              IN  /\ last'.op = "Place"
                  /\ last'.row = row
                  /\ last'.value = digit
                  /\ locations_for(grid, digit, row_cells(row)) =
                         {<<row, last'.col>>}]_vars

(***************************************************************************)
(* Claims about place and remove in the runs of load and find.             *)
(***************************************************************************)
\* the puzzle given to load has a valid solution
Solvable == \E S \in SolvedGrids : IsSolutionOf(S, lines)

\* the step is a call of place / of remove made by load or find
PlaceStep == pc \in {"load", "find"} /\ last'.op = "Place"

RemoveStep == pc = "find" /\ last'.op = "Remove"

\* C16 (as claimed): when a place made by load or find fails with the
\* contradiction error, the placed map and the 81 candidate sets are what
\* they were before the call.
C16_RejectedPlaceKeepsState ==
    [][(PlaceStep /\ pc' = "error") =>
          (placed_grid' = placed_grid /\ grid' = grid)]_vars

\* C17: a place that returns changes the placed map only at its cell and,
\* among the candidate sets, only the one of its cell and the membership of
\* value at its peers; a remove changes only the membership of value at its
\* cell and never the placed map.
C17_MutationFrame ==
    [][/\ (PlaceStep /\ pc' # "error") =>
              LET cell == <<last'.row, last'.col>>
                  value == last'.value
              IN  /\ \A c \in DCells \ {cell} : placed_grid'[c] = placed_grid[c]
                  /\ \A c \in DCells \ (Peers(cell[1], cell[2]) \cup {cell}) :
                         grid'[c] = grid[c]
                  /\ \A p \in Peers(cell[1], cell[2]) :
                         grid'[p] \ {value} = grid[p] \ {value}
       /\ RemoveStep =>
              LET cell == <<last'.row, last'.col>>
                  value == last'.value
              IN  /\ placed_grid' = placed_grid
                  /\ \A c \in DCells \ {cell} : grid'[c] = grid[c]
                  /\ grid'[cell] \ {value} = grid[cell] \ {value}]_vars

\* C17 witness: find has placed a value that is still a candidate of a cell
\* outside the peers of the placed cell
C17_Witness ==
    /\ pc = "find"
    /\ last.op = "Place"
    /\ \E c \in DCells \ Peers(last.row, last.col) : last.value \in grid[c]

\* C18: when the puzzle given to load has a valid solution, no place made
\* by load or by an action of find raises the contradiction error.
C18_NoFalseContradiction == Solvable => pc # "error"

\* C18 witness: find has placed a value found by find_only_one_place_in_col
\* in a puzzle that has a solution
C18_Witness ==
    /\ Solvable
    /\ pc = "find"
    /\ last.op = "Place"
    /\ last.strategy = 3

\* C19: while no error has been raised, no two peers hold the same placed
\* value and no unplaced cell has a candidate that is placed at one of its
\* peers; a place targets an unplaced cell and a placed value never changes.
C19_PlacedConsistent ==
    /\ [](pc # "error" =>
             \A c \in DCells : \A p \in Peers(c[1], c[2]) :
                 IF placed_grid[c] # 0
                 THEN placed_grid[p] # placed_grid[c]
                 ELSE placed_grid[p] \notin grid[c])
    /\ [][pc' # "error" =>
             /\ \A c \in DCells :
                    placed_grid[c] # 0 => placed_grid'[c] = placed_grid[c]
             /\ PlaceStep => placed_grid[<<last'.row, last'.col>>] = 0]_vars

\* C19 witness: find has returned after placing a cell that was not given,
\* with cells left unplaced
C19_Witness ==
    /\ pc = "stuck"
    /\ \E c \in DCells : placed_grid[c] = 0
    /\ \E c \in DCells : placed_grid[c] # 0 /\ lines[c[1]][c[2]] = 0

\* C20: while no error has been raised, a candidate set is empty exactly
\* when its cell is placed; a Remove is applied only when every unplaced
\* cell has at least two candidates.
C20_EmptyMeansPlaced ==
    /\ [](pc # "error" =>
             \A c \in DCells : (grid[c] = {}) <=> (placed_grid[c] # 0))
    /\ [][RemoveStep =>
             \A c \in DCells :
                 placed_grid[c] = 0 => Cardinality(grid[c]) >= 2]_vars

\* C20 witness: find has applied a Remove that left its cell one candidate
C20_Witness ==
    /\ pc = "find"
    /\ last.op = "Remove"
    /\ Cardinality(grid[<<last.row, last.col>>]) = 1

(***************************************************************************)
(* Claims about find_only_one_place_in_box.                                *)
(***************************************************************************)
\* the pairs <<cell, digit>> where digit fits exactly that one cell of a box
\* and the cell has several candidates
BoxHiddenSingles(g) ==
    {cd \in DCells \X (1..9) :
        /\ Cardinality(g[cd[1]]) > 1
        /\ \E b \in 1..9 :
               locations_for(g, cd[2], box_cell_set(boxes[b])) = {cd[1]}}

\* C21: find_only_one_place_in_box yields an action exactly when
\* find_only_one_digit_in_cell yields one, every action it yields is the
\* only candidate of its cell (so it places no digit that fits one cell of a
\* box when that cell has several candidates), and no action find applies
\* comes from strategy 4.
C21_BoxStrategyNeverFires ==
    /\ []((strategies(4, grid) # {}) <=> (strategies(1, grid) # {}))
    /\ [](\A a \in strategies(4, grid) :
              /\ a.op = "Place"
              /\ grid[<<a.row, a.col>>] = {a.value}
              /\ <<<<a.row, a.col>>, a.value>> \notin BoxHiddenSingles(grid))
    /\ [][pc = "find" => last'.strategy # 4]_vars

\* C21 witness: find has applied an action of a strategy after the fourth
\* in a state where a digit fitted exactly one cell of a box, so the scan
\* passed find_only_one_place_in_box and it yielded nothing
C21_Witness ==
    /\ pc = "find"
    /\ last.strategy > 4
    /\ \E cd \in DCells \X (1..9) :
           /\ cd[1] \notin Peers(last.row, last.col) \cup {<<last.row, last.col>>}
           /\ cd \in BoxHiddenSingles(grid)

(***************************************************************************)
(* Claims about the topology functions.                                    *)
(***************************************************************************)
\* the three indexes of the subsquare of idx
Subsquare(idx) == {i \in Idx : i \div SQS = idx \div SQS}

\* C11 (as claimed): subsq_range(idx) is the three indexes of idx's
\* subsquare for every idx in 0..8, and other_cells_affected(cell) is
\* exactly the 21 cells of the row, the column and the subsquare of cell.
C11_AffectedCells ==
    /\ (call.fn = "subsq_range" /\ Len(ret) = 1) =>
           ret[1] = Subsquare(call.arg)
    /\ (call.fn = "other_cells_affected" /\ Len(ret) = 1) =>
           /\ Cardinality(ret[1]) = 21
           /\ ret[1] = {c \in Cells : c = call.arg \/ SharesUnit(c, call.arg)}

\* the cells a sequence holds
Range(seq) == {seq[i] : i \in 1..Len(seq)}

\* C12: affected_positions(row, col) yields 20 cells, each once: the 8
\* other cells of the row, the 8 other cells of the column and the 4 cells
\* of the box in neither; never the cell itself; and the relation is
\* symmetric.
C12_PeersOfDeductiveEngine ==
    (call.fn = "affected_positions" /\ Len(ret) = 1) =>
        LET seq == ret[1]
            row == call.arg[1]
            col == call.arg[2]
            InBox(p) == /\ (p[1] - 1) \div 3 = (row - 1) \div 3
                        /\ (p[2] - 1) \div 3 = (col - 1) \div 3
        IN  /\ Len(seq) = 20
            /\ \A i, j \in 1..Len(seq) : i # j => seq[i] # seq[j]
            /\ Range(seq) \subseteq DCells
            /\ <<row, col>> \notin Range(seq)
            /\ {p \in Range(seq) : p[1] = row} =
                   {<<row, c>> : c \in cols \ {col}}
            /\ {p \in Range(seq) : p[2] = col} =
                   {<<r, col>> : r \in rows \ {row}}
            /\ {p \in Range(seq) : p[1] # row /\ p[2] # col} =
                   {p \in DCells : InBox(p) /\ p[1] # row /\ p[2] # col}
            /\ Cardinality({p \in Range(seq) : p[1] # row /\ p[2] # col}) = 4
            /\ \A q \in DCells :
                   q \in Range(seq) <=>
                       <<row, col>> \in Range(affected_positions(q[1], q[2]))

\* C12 witness: the call for the last cell of the grid has returned
C12_Witness ==
    /\ call = [fn |-> "affected_positions", arg |-> <<9, 9>>]
    /\ Len(ret) = 1

====
